---- MODULE Spec2Model ----
(***************************************************************************)
(* Model of generate_pdf.py: the money routines, the calendar week         *)
(* splitter, the off-day filter, the billable line generator and the       *)
(* payment-terms check of InvoiceUtils.                                    *)
(*                                                                         *)
(* Text is modelled as a sequence of one-character strings, so that        *)
(* indexing, splitting and digit tests are computed as Python computes     *)
(* them.  A Python call that raises is modelled by a result record whose   *)
(* exc field names the exception ("none" when the call returns).           *)
(***************************************************************************)
EXTENDS Integers, Sequences, FiniteSets, TLC

(***************************************************************************)
(* Bounds of the model.                                                    *)
(***************************************************************************)
\* longest off_days list of a values entry
MaxOff == 2
\* iterations get_week_info's loop is followed for before it is given up
\* as not terminating
LoopFuel == 32
\* longest text handed to convert_money on its own
MaxText == 4
\* largest number of cents handed to format_money on its own
MaxCents == 12345

\* the billing dates of a values document
MaxDates == 2

\* the mandatory items a template lacks
MaxMissing == 2

\* day numbers an off_days list may hold: days of the first week, of full
\* weeks and of the last week, and days that short months do not have (a
\* values document is not checked before it is used)
OffDayChoices == {1, 2, 7, 10, 15, 29, 30, 31}

(***************************************************************************)
(* Text helpers: str(), int(), str.isdigit(), str.split().                 *)
(***************************************************************************)
Digits == <<"0", "1", "2", "3", "4", "5", "6", "7", "8", "9">>

isdigit(c) == \E i \in 1..10 : Digits[i] = c

DigitVal(c) == (CHOOSE i \in 1..10 : Digits[i] = c) - 1

RECURSIVE StrNat(_)
StrNat(n) ==
    IF n < 10 THEN <<Digits[n + 1]>>
    ELSE StrNat(n \div 10) \o <<Digits[(n % 10) + 1]>>

\* str(n) of an int
str(n) == IF n < 0 THEN <<"-">> \o StrNat(-n) ELSE StrNat(n)

RECURSIVE NatOfDigits(_)
NatOfDigits(s) ==
    IF s = <<>> THEN 0
    ELSE NatOfDigits(SubSeq(s, 1, Len(s) - 1)) * 10 + DigitVal(s[Len(s)])

RECURSIVE lstrip(_)
lstrip(s) == IF s # <<>> /\ Head(s) = " " THEN lstrip(Tail(s)) ELSE s

RECURSIVE rstrip(_)
rstrip(s) ==
    IF s # <<>> /\ s[Len(s)] = " " THEN rstrip(SubSeq(s, 1, Len(s) - 1)) ELSE s

\* int(s) of a str: surrounding blanks are dropped, then an optional sign
\* and at least one digit are required; anything else is a ValueError
int(s) ==
    LET t == rstrip(lstrip(s))
        signed == t # <<>> /\ Head(t) \in {"-", "+"}
        body == IF signed THEN Tail(t) ELSE t
    IN  IF body = <<>> \/ \E i \in 1..Len(body) : ~isdigit(body[i])
        THEN [exc |-> "ValueError", val |-> 0]
        ELSE [exc |-> "none",
              val |-> IF signed /\ Head(t) = "-" THEN -NatOfDigits(body)
                      ELSE NatOfDigits(body)]

\* the positions of character c in s
Positions(s, c) == {i \in 1..Len(s) : s[i] = c}

(***************************************************************************)
(* calendar.monthrange and datetime.date                                   *)
(***************************************************************************)
isleap(year) == year % 4 = 0 /\ (year % 100 # 0 \/ year % 400 = 0)

mdays == <<31, 28, 31, 30, 31, 30, 31, 31, 30, 31, 30, 31>>

DaysInMonth(year, month) ==
    IF month = 2 /\ isleap(year) THEN 29 ELSE mdays[month]

DaysBeforeYear(year) ==
    LET y == year - 1
    IN  y * 365 + (y \div 4) - (y \div 100) + (y \div 400)

RECURSIVE DaysBeforeMonth(_, _)
DaysBeforeMonth(year, month) ==
    IF month = 1 THEN 0
    ELSE DaysBeforeMonth(year, month - 1) + DaysInMonth(year, month - 1)

\* datetime.date(year, month, day) exists
ValidDate(year, month, day) ==
    /\ month \in 1..12
    /\ day \in 1..DaysInMonth(year, month)

\* datetime.date(year, month, day).weekday(): 0 is Monday, 6 is Sunday
weekday(year, month, day) ==
    (DaysBeforeYear(year) + DaysBeforeMonth(year, month) + day + 6) % 7

\* calendar.monthrange(year, month)
monthrange(year, month) ==
    <<weekday(year, month, 1), DaysInMonth(year, month)>>

(***************************************************************************)
(* InvoiceUtils.remove_off, get_week_info, not_weekend                     *)
(***************************************************************************)
remove_off(work_days, week_start, week_end, off_days) ==
    work_days - Cardinality({i \in DOMAIN off_days :
                                week_start <= off_days[i] /\ off_days[i] <= week_end})

\* week starts monday = 0, ends Sunday = 6; we want sunday = 1 and saturday = 7
remap_week_start_day(week_start_day) == ((week_start_day + 1) % 7) + 1

\* the workdays of the first week, before the off days are removed
first_work_days(week_difference) ==
    IF week_difference = 6 THEN 5 ELSE week_difference

\* a faulty variant of next_week_start: the next week starts on the day the last ended
next_week_start_overlap(week_end_date) == week_end_date

\* the start of the week after the one ending on week_end_date
next_week_start(week_end_date) == week_end_date + 1

\* a faulty variant of is_full_week: a week is full only when 7 days follow
\* its start
is_full_week_late(month_end, week_start_date) == month_end - week_start_date >= 7

\* a later week is a full one when at least 6 days follow its start
is_full_week(month_end, week_start_date) == month_end - week_start_date >= 6

later_week_end(month_end, week_start_date) ==
    IF is_full_week(month_end, week_start_date)
    THEN week_start_date + 6 ELSE month_end

\* a faulty variant of later_work_days: the last week counts its Sunday as a workday
later_work_days_span(month_end, week_start_date) ==
    IF is_full_week(month_end, week_start_date)
    THEN 5 ELSE month_end - week_start_date + 1

\* the workdays of a later week, before the off days are removed
later_work_days(month_end, week_start_date) ==
    IF is_full_week(month_end, week_start_date)
    THEN 5 ELSE month_end - week_start_date

week_tuple(week_start_date, week_end_date, work_days) ==
    <<week_start_date, week_end_date, work_days, work_days * 8>>

\* the while True loop of get_week_info, entered with the week about to be
\* appended; fuel counts the iterations still followed
RECURSIVE week_loop(_, _, _, _, _, _, _)
week_loop(month_end, off, week_info, week_start_date, week_end_date, work_days, fuel) ==
    IF fuel = 0 THEN [returned |-> FALSE, week_info |-> week_info]
    ELSE
      LET appended == Append(week_info,
                             week_tuple(week_start_date, week_end_date, work_days))
          start == next_week_start(week_end_date)
      IN  IF start > month_end
          THEN [returned |-> TRUE, week_info |-> appended]
          ELSE week_loop(month_end, off, appended, start,
                         later_week_end(month_end, start),
                         remove_off(later_work_days(month_end, start), start,
                                    later_week_end(month_end, start), off),
                         fuel - 1)

get_week_info(year, month, off) ==
    LET mr == monthrange(year, month)
        month_end == mr[2]
        week_start_date == 1
        week_start_day == remap_week_start_day(mr[1])
        week_difference == 7 - week_start_day
        week_end_date == week_start_date + week_difference
        work_days == remove_off(first_work_days(week_difference),
                                week_start_date, week_end_date, off)
    IN  week_loop(month_end, off, <<>>, week_start_date, week_end_date,
                  work_days, LoopFuel)

\* True if the day is not a Sat/Sun; datetime.date raises ValueError for a
\* day the month does not have
not_weekend(day, month, year) ==
    IF ~ValidDate(year, month, day) THEN [exc |-> "ValueError", val |-> FALSE]
    ELSE [exc |-> "none", val |-> weekday(year, month, day) \notin {5, 6}]

\* [day for day in off if not_weekend(day, month, year)]
RECURSIVE filter_off(_, _, _)
filter_off(off, month, year) ==
    IF off = <<>> THEN [exc |-> "none", val |-> <<>>]
    ELSE LET keep == not_weekend(Head(off), month, year)
             rest == filter_off(Tail(off), month, year)
         IN  IF keep.exc # "none" THEN [exc |-> keep.exc, val |-> <<>>]
             ELSE IF rest.exc # "none" THEN rest
             ELSE [exc |-> "none",
                   val |-> IF keep.val THEN <<Head(off)>> \o rest.val ELSE rest.val]

(***************************************************************************)
(* InvoiceUtils.convert_money, format_money                                *)
(***************************************************************************)
\* while not value[0].isdigit(): value = value[1:]
RECURSIVE skip_non_digits(_)
skip_non_digits(value) ==
    IF value = <<>> THEN [exc |-> "IndexError", val |-> <<>>]
    ELSE IF isdigit(value[1]) THEN [exc |-> "none", val |-> value]
    ELSE skip_non_digits(Tail(value))

\* the return of the branch without a decimal point: base is not assigned
\* on that path
convert_no_point(value) == [exc |-> "UnboundLocalError", val |-> 0]

\* base, decimal = value.split('.'), then
\* int(base) * 100 + int(decimal[0]) * 10 + int(decimal[1])
convert_with_point(value) ==
    LET dots == Positions(value, ".")
        dot == CHOOSE i \in dots : TRUE
        base == SubSeq(value, 1, dot - 1)
        decimal == SubSeq(value, dot + 1, Len(value))
    IN  IF Cardinality(dots) # 1 THEN [exc |-> "ValueError", val |-> 0]
        ELSE IF int(base).exc # "none" THEN [exc |-> "ValueError", val |-> 0]
        ELSE IF Len(decimal) < 1 THEN [exc |-> "IndexError", val |-> 0]
        ELSE IF int(<<decimal[1]>>).exc # "none" THEN [exc |-> "ValueError", val |-> 0]
        ELSE IF Len(decimal) < 2 THEN [exc |-> "IndexError", val |-> 0]
        ELSE IF int(<<decimal[2]>>).exc # "none" THEN [exc |-> "ValueError", val |-> 0]
        ELSE [exc |-> "none",
              val |-> int(base).val * 100 + int(<<decimal[1]>>).val * 10
                      + int(<<decimal[2]>>).val]

convert_money(value) ==
    LET skipped == skip_non_digits(value)
    IN  IF skipped.exc # "none" THEN [exc |-> skipped.exc, val |-> 0]
        ELSE IF skipped.val = <<>> THEN [exc |-> "none", val |-> 0]
        ELSE IF Positions(skipped.val, ".") # {} THEN convert_with_point(skipped.val)
        ELSE convert_no_point(skipped.val)

\* "0" after a zero decimal part, nothing otherwise
padding(decimal) == IF decimal = 0 THEN <<"0">> ELSE <<>>

\* int(value / 100): the quotient cut towards zero
money_base(value) ==
    IF value >= 0 THEN value \div 100 ELSE -((-value) \div 100)

\* "{base}.{dec}{pad}"
format_money(value) ==
    LET base == money_base(value)
        decimal == value % 100
    IN  str(base) \o <<".">> \o str(decimal) \o padding(decimal)

(***************************************************************************)
(* InvoiceUtils.fillin_billable, get_billables                             *)
(***************************************************************************)
month_name == <<"January", "February", "March", "April", "May", "June", "July",
                "August", "September", "October", "November", "December">>

\* 'Week of {month} {start} - {end}', kept as its words
description(week_info, month) ==
    <<"Week of", month_name[month], str(week_info[1]), "-", str(week_info[2])>>

\* printable format for the rate
printable(currency_marker, text) == currency_marker \o <<" ">> \o text

\* the line item cost: convert_money(billable['rate']) * int(billable['hours'])
line_cost(rate_text, hours_text) ==
    LET cents == convert_money(rate_text)
        hours == int(hours_text)
    IN  IF cents.exc # "none" THEN [exc |-> cents.exc, val |-> 0]
        ELSE IF hours.exc # "none" THEN [exc |-> hours.exc, val |-> 0]
        ELSE [exc |-> "none", val |-> cents.val * hours.val]

fillin_billable(week_info, rate, month, currency_marker) ==
    LET hours == str(week_info[4])
        rate_text == printable(currency_marker, rate)
        cost == line_cost(rate_text, hours)
    IN  IF cost.exc # "none" THEN [exc |-> cost.exc, val |-> <<>>]
        ELSE [exc |-> "none",
              val |-> [description |-> description(week_info, month),
                       rate |-> rate_text,
                       hours |-> hours,
                       cost |-> printable(currency_marker, format_money(cost.val))]]

\* a faulty variant of billable_week: a week without hours gets a line too
billable_week_any(week) == week[4] >= 0

\* for week in weeks if week[3] > 0
billable_week(week) == week[4] > 0

\* [fillin_billable(week, rate, month, currency_marker)
\*  for week in weeks if week[3] > 0]
RECURSIVE fillin_weeks(_, _, _, _)
fillin_weeks(weeks, rate, month, currency_marker) ==
    IF weeks = <<>> THEN [exc |-> "none", val |-> <<>>]
    ELSE IF ~billable_week(Head(weeks))
    THEN fillin_weeks(Tail(weeks), rate, month, currency_marker)
    ELSE LET line == fillin_billable(Head(weeks), rate, month, currency_marker)
             rest == fillin_weeks(Tail(weeks), rate, month, currency_marker)
         IN  IF line.exc # "none" THEN [exc |-> line.exc, val |-> <<>>]
             ELSE IF rest.exc # "none" THEN rest
             ELSE [exc |-> "none", val |-> <<line.val>> \o rest.val]

\* the off days of a values entry, [] when it has none
entry_off_days(entry) ==
    IF "off_days" \in DOMAIN entry THEN entry.off_days ELSE <<>>

\* get_billables(values, billdate, currency_marker), for the entry
\* values[billdate]: the exception it ends with ("none" when it returns),
\* the call that raised it, and its locals off (after the filter), weeks and
\* billables as far as it got
get_billables(entry, year, month, currency_marker) ==
    LET off == filter_off(entry_off_days(entry), month, year)
        weeks == get_week_info(year, month, off.val)
        lines == fillin_weeks(weeks.week_info, entry.rate, month, currency_marker)
        none == [exc |-> "none", where |-> "none", off |-> <<>>, weeks |-> <<>>,
                 billables |-> <<>>]
    IN  IF off.exc # "none"
        THEN [none EXCEPT !.exc = off.exc, !.where = "not_weekend"]
        ELSE IF ~weeks.returned
        THEN [none EXCEPT !.exc = "no return", !.where = "get_week_info",
                          !.off = off.val, !.weeks = weeks.week_info]
        ELSE IF lines.exc # "none"
        THEN [none EXCEPT !.exc = lines.exc, !.where = "fillin_billable",
                          !.off = off.val, !.weeks = weeks.week_info]
        ELSE [none EXCEPT !.off = off.val, !.weeks = weeks.week_info,
                          !.billables = lines.val]

(***************************************************************************)
(* InvoiceUtils.set_due_date, get_n_months_later                           *)
(***************************************************************************)
\* str.split(): the words of a text, cut at its blanks
RECURSIVE split_from(_, _)
split_from(s, word) ==
    IF s = <<>> THEN (IF word = <<>> THEN <<>> ELSE <<word>>)
    ELSE IF Head(s) = " "
    THEN (IF word = <<>> THEN <<>> ELSE <<word>>) \o split_from(Tail(s), <<>>)
    ELSE split_from(Tail(s), Append(word, Head(s)))

split(s) == split_from(s, <<>>)

\* str.isdigit() of a word
all_digits(word) == word # <<>> /\ \A i \in 1..Len(word) : isdigit(word[i])

\* old_date + datetime.timedelta(days=count)
RECURSIVE add_days(_, _, _, _)
add_days(y, m, d, count) ==
    IF d + count <= DaysInMonth(y, m) THEN <<y, m, d + count>>
    ELSE LET rest == count - (DaysInMonth(y, m) - d + 1)
         IN  IF m = 12 THEN add_days(y + 1, 1, 1, rest)
             ELSE add_days(y, m + 1, 1, rest)

\* %m and %d of strftime: two digits
two_digits(n) == IF n < 10 THEN <<"0">> \o str(n) ELSE str(n)

\* new_date.strftime("%Y/%m/%d")
strftime(date) ==
    str(date[1]) \o <<"/">> \o two_digits(date[2]) \o <<"/">> \o two_digits(date[3])

\* a faulty variant of get_n_months_later: count taken as months of 30 days,
\* the day of the month kept
get_n_months_later_by_month(y, m, d, count) ==
    LET months == (m - 1) + (count \div 30)
    IN  strftime(<<y + (months \div 12), (months % 12) + 1, d>>)

get_n_months_later(y, m, d, count) == strftime(add_days(y, m, d, count))

Net30 == <<"N", "e", "t", " ", "3", "0">>

\* the first words the terms may begin with
net_words == {<<"n", "e", "t">>, <<"N", "e", "t">>}

\* the numbers of days the terms may give
net_days == {<<"3", "0">>, <<"6", "0">>, <<"9", "0">>, <<"1", "2", "0">>,
             <<"1", "8", "0">>}

bad_payment_terms(terms) == <<"Bad payment terms: ", terms, "\n">>

\* set_due_date(config) for config['bill'] = bill and config['billdate'] =
\* y-m-d: the exception it ends with ("none" when it returns, "SystemExit"
\* for sys.exit), the exit status, what it wrote to stderr, and config['bill']
\* as it leaves it
set_due_date(bill, y, m, d) ==
    LET with_terms == IF "payment_terms" \in DOMAIN bill THEN bill
                      ELSE [k \in DOMAIN bill \cup {"payment_terms"} |->
                               IF k = "payment_terms" THEN Net30 ELSE bill[k]]
        terms == with_terms.payment_terms
        fields == split(terms)
        raised(exc) == [exc |-> exc, status |-> 1, stderr |-> <<>>, bill |-> with_terms]
    IN  IF Len(fields) < 1 THEN raised("IndexError")
        ELSE IF fields[1] \in net_words /\ Len(fields) < 2 THEN raised("IndexError")
        ELSE IF \/ fields[1] \notin net_words
                \/ ~all_digits(fields[2])
                \/ fields[2] \notin net_days
        THEN [exc |-> "SystemExit", status |-> 1,
              stderr |-> bad_payment_terms(terms), bill |-> with_terms]
        ELSE [exc |-> "none", status |-> 0, stderr |-> <<>>,
              bill |-> [k \in DOMAIN with_terms \cup {"due_date"} |->
                           IF k = "due_date"
                           THEN get_n_months_later(y, m, d, int(fields[2]).val)
                           ELSE with_terms[k]]]

(***************************************************************************)
(* InvoiceConfig.add_config_defaults                                       *)
(* A config is a dict: a function from its keys to their values.           *)
(***************************************************************************)
\* d[key] = value
put(d, key, value) ==
    [k \in DOMAIN d \cup {key} |-> IF k = key THEN value ELSE d[k]]

\* a faulty variant of set_if_absent: the default replaces what is there
set_always(d, key, value) == put(d, key, value)

\* if key not in d: d[key] = value
set_if_absent(d, key, value) ==
    IF key \notin DOMAIN d THEN put(d, key, value) ELSE d

\* if key not in config[stanza]: config[stanza][key] = value
set_in_stanza(c, stanza, key, value) ==
    put(c, stanza, set_if_absent(c[stanza], key, value))

dollar == <<"$">>

get_currency_marker(c) ==
    IF "currency_marker" \notin DOMAIN c THEN dollar ELSE c.currency_marker

color_light_default == [r |-> 117, g |-> 180, b |-> 209]

color_dark_default == [r |-> 16, g |-> 46, b |-> 95]

add_config_defaults(c) ==
    LET c1 == put(c, "currency_marker", get_currency_marker(c))
        c2 == set_if_absent(c1, "currency_marker", dollar)
        c3 == IF "tax_details" \notin DOMAIN c2
              THEN put(c2, "tax_details", [k \in {} |-> 0]) ELSE c2
        c4 == set_in_stanza(c3, "tax_details", "tax_name", "Tax")
        c5 == set_in_stanza(c4, "tax_details", "default_percentage", 0)
        c6 == IF "app_config" \notin DOMAIN c5
              THEN put(c5, "app_config", [k \in {} |-> 0]) ELSE c5
        c7 == set_in_stanza(c6, "app_config", "output_dir", "./billed")
        c8 == set_in_stanza(c7, "app_config", "sans_font", "Helvetica")
        c9 == set_in_stanza(c8, "app_config", "serif_font", "DejaVu")
        c10 == IF "colors" \notin DOMAIN c9
               THEN put(c9, "colors", [k \in {} |-> 0]) ELSE c9
        c11 == set_in_stanza(c10, "colors", "color_light", color_light_default)
        \* the second test looks for color_light again
        c12 == IF "color_light" \notin DOMAIN c11.colors
               THEN put(c11, "colors", put(c11.colors, "color_dark", color_dark_default))
               ELSE c11
    IN  c12

(***************************************************************************)
(* check_missing_settings, InvoiceConfig.validate_config, usage            *)
(* A line of the error stream is a tuple of the pieces written.            *)
(***************************************************************************)
required_sections == <<"business", "bill_to", "bill", "work_done", "billables">>

business_settings == <<"name", "person", "address">>

bill_to_settings == <<"email", "name", "street", "city_state_zip", "country">>

bill_settings == <<"department", "currency", "payment_terms", "due_date">>

billable_settings == <<"description", "hours", "rate">>

\* the positions of the settings that d lacks
missing_positions(settings, d) ==
    {i \in 1..Len(settings) : settings[i] \notin DOMAIN d}

\* where the loop over the settings returns False: the first setting that d
\* lacks, 0 when it lacks none
first_missing(settings, d) ==
    LET lacking == missing_positions(settings, d)
    IN  IF lacking = {} THEN 0
        ELSE CHOOSE i \in lacking : \A j \in lacking : i <= j

\* the stanza's name is inside the quotes of the message, not joined to it
stanza_message == "Config ' + stanza + 'stanza is missing mandatory setting "

entry_message == "Config entry is missing mandatory setting "

\* stanza "" stands for None
check_missing_settings(stanza, settings, c) ==
    LET d == IF stanza # "" THEN c[stanza] ELSE c
        at == first_missing(settings, d)
        message == IF stanza # "" THEN stanza_message ELSE entry_message
    IN  IF at = 0 THEN [ok |-> TRUE, stderr |-> <<>>]
        ELSE [ok |-> FALSE, stderr |-> <<<<message, settings[at]>>>>]

\* the lines the loop over config['billables'] writes
RECURSIVE check_billables(_)
check_billables(items) ==
    IF items = <<>> THEN <<>>
    ELSE check_missing_settings("", billable_settings, Head(items)).stderr
             \o check_billables(Tail(items))

\* validate_config(config); exists is what os.path.exists says of the image
\* file
validate_config(c, exists) ==
    LET section == first_missing(required_sections, c)
        business == check_missing_settings("business", business_settings, c)
        bill_to == check_missing_settings("bill_to", bill_to_settings, c)
        bill == check_missing_settings("bill", bill_settings, c)
        okay == business.ok /\ bill_to.ok /\ bill.ok
        stanzas == business.stderr \o bill_to.stderr \o bill.stderr
        entries == check_billables(c.billables)
    IN  IF section # 0
        THEN [ok |-> FALSE,
              stderr |-> <<<<"Config is missing mandatory stanza ",
                             required_sections[section]>>>>]
        ELSE IF ~okay
        THEN [ok |-> FALSE, stderr |-> stanzas]
        ELSE IF "image_file" \in DOMAIN c.business /\ ~exists
        THEN [ok |-> FALSE,
              stderr |-> Append(entries, <<"No such image file ", c.business.image_file>>)]
        ELSE [ok |-> TRUE, stderr |-> entries]

usage_message == <<"Usage: python3 generate_pdf.py --values <path> --template <path>">>

\* a faulty variant of usage: it returns to its caller
usage_returns(message) ==
    [stderr |-> <<<<message>>, usage_message>>, exc |-> "none", code |-> 0]

\* usage(message) writes the message and the usage text, then sys.exit(1)
usage(message) ==
    [stderr |-> <<<<message>>, usage_message>>, exc |-> "SystemExit", code |-> 1]

(***************************************************************************)
(* render_pdf and InvoiceDraw.get_subtotal                                 *)
(***************************************************************************)
\* the sum of convert_money over the costs of the billables, or the
\* exception of the first cost that raises one
RECURSIVE get_subtotal_from(_, _)
get_subtotal_from(items, subtotal) ==
    IF items = <<>> THEN [exc |-> "none", val |-> subtotal]
    ELSE LET cost == convert_money(Head(items).cost)
         IN  IF cost.exc # "none" THEN [exc |-> cost.exc, val |-> subtotal]
             ELSE get_subtotal_from(Tail(items), subtotal + cost.val)

get_subtotal(c) == get_subtotal_from(c.billables, 0)

content_keys == {"description", "hours", "rate", "cost"}

\* what render_pdf draws before the totals: the exception of the first
\* routine that raises one
draw_tables(c) ==
    IF "image_file" \notin DOMAIN c.business
    THEN [exc |-> "KeyError", where |-> "header"]
    ELSE IF "color_dark" \notin DOMAIN c.colors
    THEN [exc |-> "KeyError", where |-> "dark_text"]
    ELSE IF \E i \in DOMAIN c.billables : ~(content_keys \subseteq DOMAIN c.billables[i])
    THEN [exc |-> "KeyError", where |-> "draw_filled_table"]
    ELSE [exc |-> "none", where |-> "none"]

\* draw_totals_taxes_table, given what get_subtotal did
draw_totals_taxes_table(c, subtotal) ==
    IF subtotal.exc # "none"
    THEN [exc |-> subtotal.exc, where |-> "get_subtotal", subtotal |-> 0]
    ELSE IF c.billables = <<>>
    THEN [exc |-> "IndexError", where |-> "draw_blanks", subtotal |-> 0]
    ELSE [exc |-> "none", where |-> "none", subtotal |-> subtotal.val]

\* render_pdf(config): the exception it ends with, the routine that raised
\* it, and the subtotal of the invoice
render_pdf(c) ==
    IF draw_tables(c).exc # "none"
    THEN [exc |-> "KeyError", where |-> draw_tables(c).where, subtotal |-> 0]
    ELSE draw_totals_taxes_table(c, get_subtotal(c))

(***************************************************************************)
(* InvoiceConfig.get_yaml_config: the template filled in for one date      *)
(* A template is known by the mandatory items it lacks, each a             *)
(* <<stanza, key>> with key "" for the stanza as a whole, by its payment   *)
(* terms if it has any, and by whether it names a logo and its colors.  A  *)
(* template that lacks a key of the billables has, in place of the         *)
(* BILLABLES marker, one billable line of its own without that key.        *)
(***************************************************************************)
template_keys ==
    [business |-> {"name", "person", "address"},
     bill_to |-> {"email", "name", "street", "city_state_zip", "country"},
     bill |-> {"department", "currency"}]

billable_keys == {"description", "hours", "rate"}

\* the stanza as the template writes it for the billing date
template_stanza(t, name, billdate) ==
    LET written == {k \in template_keys[name] : <<name, k>> \notin t.missing}
        logo == IF name = "business" /\ t.image_file THEN {"image_file"} ELSE {}
        terms == IF name = "bill" /\ "payment_terms" \in DOMAIN t
                 THEN {"payment_terms"} ELSE {}
    IN  [k \in written \cup logo \cup terms |->
            CASE k = "image_file" -> <<"logo", billdate>>
              [] k = "payment_terms" -> t.payment_terms
              [] OTHER -> "text"]

\* the billable line a template writes itself
own_billable(t) ==
    LET line == [description |-> "Consulting", hours |-> <<"8">>,
                 rate |-> <<"$", " ", "5", "0", ".", "0", "0">>,
                 cost |-> <<"$", " ", "4", "0", "0", ".", "0", "0">>]
    IN  [k \in {k \in DOMAIN line : <<"billables", k>> \notin t.missing} |-> line[k]]

own_billables(t) == \E k \in billable_keys : <<"billables", k>> \in t.missing

\* yaml.safe_load(text % {BILLDATE, WORK, BILLABLES})
fill_template(t, billdate, work, billables) ==
    LET stanzas == {n \in DOMAIN template_keys : <<n, "">> \notin t.missing}
        sections == {n \in {"work_done", "billables"} : <<n, "">> \notin t.missing}
        colors == IF t.colors THEN {"colors"} ELSE {}
    IN  [k \in stanzas \cup sections \cup colors \cup {"billdate"} |->
            CASE k = "billdate" -> billdate
              [] k = "work_done" -> work
              [] k = "billables" ->
                    IF own_billables(t) THEN <<own_billable(t)>> ELSE billables
              [] k = "colors" -> [color_light |-> [r |-> 1, g |-> 2, b |-> 3],
                                  color_dark |-> [r |-> 4, g |-> 5, b |-> 6]]
              [] OTHER -> template_stanza(t, k, billdate)]

\* the probe pass: the currency marker of the template filled with junk
probe_currency_marker(t) ==
    get_currency_marker(fill_template(t, "JUNK", "", ""))

\* the body of get_yaml_config's loop for values[billdate], given what
\* get_billables did for it
expand_date(t, billdate, e, billables) ==
    IF "work_done" \notin DOMAIN e
    THEN [exc |-> "KeyError", where |-> "get_yaml_config", config |-> <<>>]
    ELSE IF billables.exc # "none"
    THEN [exc |-> billables.exc, where |-> billables.where, config |-> <<>>]
    ELSE [exc |-> "none", where |-> "none",
          config |-> fill_template(t, billdate, e.work_done, billables.billables)]

(***************************************************************************)
(* The billables of one billing date: get_yaml_config's call of            *)
(* get_billables for an entry of the values document, and get_week_info    *)
(* called on its own with the entry's off days as they are listed.         *)
(***************************************************************************)
VARIABLES
    pc,               \* the position of the program
    year, month,      \* of the billing date
    entry,            \* values[billdate]
    currency_marker,  \* from the probe pass of the template
    result,           \* what get_billables or get_week_info did
    day,              \* of the billing date
    bill,             \* config['bill'] handed to set_due_date
    outcome,          \* what set_due_date did
    cents,            \* the argument of format_money
    formatted,        \* what format_money returned, <<>> before it is called
    text,             \* the argument of convert_money
    parsed,           \* what convert_money did
    config,           \* the config handed to add_config_defaults
    defaulted,        \* what its successive applications returned
    template,         \* the template file
    values,           \* the values document: its billing dates in order
    pdf_config,       \* the list of configs get_yaml_config builds
    idx,              \* the date being expanded, then the entry of do_main's loop
    stderr,           \* the lines written to the error stream
    rendered,         \* the entries render_pdf wrote an invoice for, in order
    log,              \* the steps taken so far, as <<step, position>>
    status            \* how the process ended: the exception, where, the exit code

billables_vars == <<year, month, entry, currency_marker, result>>

money_vars == <<cents, formatted, text, parsed>>

terms_vars == <<day, bill, outcome>>

defaults_vars == <<config, defaulted>>

main_vars == <<template, values, pdf_config, idx, stderr, rendered, log, status>>

vars == <<pc, billables_vars, money_vars, terms_vars, defaults_vars, main_vars>>

\* years of the billing dates
Years == {2023, 2024}

\* the rate strings of the values documents
Rates == {<<"5", "0">>, <<"5", "0", ".", "0", "0">>,
          <<"1", "2", ".", "3", "4">>, <<"0", ".", "1", "3">>}

Markers == {<<"$">>, <<"E", "U", "R">>}

OffLists == UNION {[1..n -> OffDayChoices] : n \in 0..MaxOff}

Entries ==
    [rate : Rates] \cup [rate : Rates, off_days : OffLists]

NoResult ==
    [exc |-> "none", where |-> "none", off |-> <<>>, weeks |-> <<>>,
     billables |-> <<>>]

NoParse == [exc |-> "none", val |-> 0]

\* no money routine is under way
MoneyIdle ==
    /\ cents = 0
    /\ formatted = <<>>
    /\ text = <<>>
    /\ parsed = NoParse

NoOutcome == [exc |-> "none", status |-> 0, stderr |-> <<>>, bill |-> <<>>]

\* no due date is under way
TermsIdle ==
    /\ day = 1
    /\ bill = <<>>
    /\ outcome = NoOutcome

\* an empty dict
empty_dict == [k \in {} |-> 0]

\* no defaulting is under way
DefaultsIdle ==
    /\ config = empty_dict
    /\ defaulted = <<>>

\* the process runs
NoStatus == [exc |-> "none", where |-> "none", code |-> 0]

\* no batch is under way
MainIdle ==
    /\ template = empty_dict
    /\ values = <<>>
    /\ pdf_config = <<>>
    /\ idx = 0
    /\ stderr = <<>>
    /\ rendered = <<>>
    /\ log = <<>>
    /\ status = NoStatus

Init ==
    /\ pc = "start"
    /\ year \in Years
    /\ month \in 1..12
    /\ entry \in Entries
    /\ currency_marker \in Markers
    /\ result = NoResult
    /\ MoneyIdle
    /\ TermsIdle
    /\ DefaultsIdle
    /\ MainIdle

GetBillables ==
    /\ pc = "start"
    /\ result' = get_billables(entry, year, month, currency_marker)
    /\ pc' = "get_billables"
    /\ UNCHANGED <<year, month, entry, currency_marker, money_vars, terms_vars,
                   defaults_vars, main_vars>>

GetWeekInfo ==
    /\ pc = "start"
    /\ LET weeks == get_week_info(year, month, entry_off_days(entry))
       IN  result' = [NoResult EXCEPT
                        !.exc = IF weeks.returned THEN "none" ELSE "no return",
                        !.where = IF weeks.returned THEN "none" ELSE "get_week_info",
                        !.off = entry_off_days(entry),
                        !.weeks = weeks.week_info]
    /\ pc' = "get_week_info"
    /\ UNCHANGED <<year, month, entry, currency_marker, money_vars, terms_vars,
                   defaults_vars, main_vars>>

Next == GetBillables \/ GetWeekInfo

Spec == Init /\ [][Next]_vars

(***************************************************************************)
(* The money routines on their own: convert_money applied to a text, and   *)
(* format_money applied to a number of cents with its text parsed back by  *)
(* convert_money, as get_subtotal parses the costs fillin_billable         *)
(* formatted.  Here pc names the routine about to be called.               *)
(***************************************************************************)
\* the characters of the money texts: a marker, a blank, the point, digits
MoneyChars == {"$", " ", ".", "0", "5"}

MoneyTexts == UNION {[1..n -> MoneyChars] : n \in 0..MaxText}

\* no billables are under way
BillablesIdle ==
    /\ year = 2024
    /\ month = 1
    /\ entry = [rate |-> <<>>]
    /\ currency_marker = <<"$">>
    /\ result = NoResult

MoneyInit ==
    /\ BillablesIdle
    /\ TermsIdle
    /\ DefaultsIdle
    /\ MainIdle
    /\ formatted = <<>>
    /\ parsed = NoParse
    /\ \/ /\ pc = "convert_money"
          /\ text \in MoneyTexts
          /\ cents = 0
       \/ /\ pc = "format_money"
          /\ cents \in 0..MaxCents
          /\ text = <<>>

FormatMoney ==
    /\ pc = "format_money"
    /\ formatted' = format_money(cents)
    /\ text' = formatted'
    /\ pc' = "convert_money"
    /\ UNCHANGED <<cents, parsed, billables_vars, terms_vars, defaults_vars, main_vars>>

ConvertMoney ==
    /\ pc = "convert_money"
    /\ parsed' = convert_money(text)
    /\ pc' = "done"
    /\ UNCHANGED <<cents, formatted, text, billables_vars, terms_vars,
                   defaults_vars, main_vars>>

MoneyNext == FormatMoney \/ ConvertMoney

MoneySpec == MoneyInit /\ [][MoneyNext]_vars

(***************************************************************************)
(* The due date of one invoice: do_main's call of set_due_date for a       *)
(* config whose bill stanza has payment terms or none.                     *)
(***************************************************************************)
Words(first, second) == first \o <<" ">> \o second

\* the payment terms of the templates: the five the usage message names,
\* other spellings of Net, another number, missing or extra words
PaymentTerms ==
    {Words(<<"N", "e", "t">>, n) : n \in net_days}
    \cup {Words(<<"n", "e", "t">>, <<"3", "0">>),
          Words(<<"N", "E", "T">>, <<"3", "0">>),
          Words(<<"n", "E", "t">>, <<"6", "0">>),
          Words(<<"N", "e", "t">>, <<"4", "5">>),
          <<"N", "e", "t">>,
          <<>>,
          Words(Net30, <<"d", "a", "y", "s">>),
          Words(<<"D", "u", "e">>, <<"3", "0">>)}

\* config['bill'] of a template: department and currency, with or without
\* payment terms
Bills ==
    {[department |-> "IT", currency |-> "USD"]}
    \cup {[department |-> "IT", currency |-> "USD", payment_terms |-> t] :
             t \in PaymentTerms}

TermsInit ==
    /\ pc = "start"
    /\ year \in Years
    /\ month \in 1..12
    /\ day \in 1..DaysInMonth(year, month)
    /\ bill \in Bills
    /\ outcome = NoOutcome
    /\ entry = [rate |-> <<>>]
    /\ currency_marker = <<"$">>
    /\ result = NoResult
    /\ MoneyIdle
    /\ DefaultsIdle
    /\ MainIdle

SetDueDate ==
    /\ pc = "start"
    /\ outcome' = set_due_date(bill, year, month, day)
    /\ pc' = "set_due_date"
    /\ UNCHANGED <<year, month, day, bill, entry, currency_marker, result, money_vars,
                   defaults_vars, main_vars>>

TermsNext == SetDueDate

TermsSpec == TermsInit /\ [][TermsNext]_vars

(***************************************************************************)
(* add_config_defaults applied to a config, and applied again to what it   *)
(* returned.  The configs have every combination of the optional keys,     *)
(* each with a value that is not the default.                              *)
(***************************************************************************)
OptionalKeys == {"currency_marker", "tax_details", "app_config", "colors"}

TaxKeys == {"tax_name", "default_percentage"}

AppKeys == {"output_dir", "sans_font", "serif_font"}

ColorKeys == {"color_light", "color_dark"}

\* what a config sets a key to when it sets it
OwnValue ==
    [tax_name |-> "VAT", default_percentage |-> 20,
     output_dir |-> "/srv/invoices", sans_font |-> "Arial", serif_font |-> "Times",
     color_light |-> [r |-> 1, g |-> 2, b |-> 3],
     color_dark |-> [r |-> 4, g |-> 5, b |-> 6]]

Stanza(keys) == [k \in keys |-> OwnValue[k]]

OptionalConfig(top, tax, app, colors) ==
    [k \in top \cup {"billdate"} |->
        CASE k = "billdate" -> "2024-06-15"
          [] k = "currency_marker" -> <<"E", "U", "R">>
          [] k = "tax_details" -> Stanza(tax)
          [] k = "app_config" -> Stanza(app)
          [] k = "colors" -> Stanza(colors)]

OptionalConfigs ==
    {OptionalConfig(top, tax, app, colors) :
        top \in SUBSET OptionalKeys, tax \in SUBSET TaxKeys,
        app \in SUBSET AppKeys, colors \in SUBSET ColorKeys}

DefaultsInit ==
    /\ pc = "start"
    /\ config \in OptionalConfigs
    /\ defaulted = <<>>
    /\ BillablesIdle
    /\ MoneyIdle
    /\ TermsIdle
    /\ MainIdle

AddConfigDefaults ==
    /\ pc = "start"
    /\ defaulted' = <<add_config_defaults(config)>>
    /\ pc' = "add_config_defaults"
    /\ UNCHANGED <<config, billables_vars, money_vars, terms_vars, main_vars>>

AddConfigDefaultsAgain ==
    /\ pc = "add_config_defaults"
    /\ defaulted' = Append(defaulted, add_config_defaults(defaulted[1]))
    /\ pc' = "add_config_defaults again"
    /\ UNCHANGED <<config, billables_vars, money_vars, terms_vars, main_vars>>

DefaultsNext == AddConfigDefaults \/ AddConfigDefaultsAgain

DefaultsSpec == DefaultsInit /\ [][DefaultsNext]_vars

(***************************************************************************)
(* do_main: get_yaml_config expands every billing date of the values       *)
(* document, then the loop defaults, dates, validates and renders the      *)
(* configs one after the other.                                            *)
(***************************************************************************)
\* the billing date of the n-th entry of the values document
BillDates == <<<<2024, 3, 31>>, <<2024, 6, 30>>, <<2023, 1, 31>>, <<2023, 12, 31>>>>

\* the entries of the values documents: two that expand and render, a rate
\* without a point, a rate whose line costs have a one-digit fraction, and
\* an entry without work_done
MainEntries ==
    {[rate |-> <<"5", "0", ".", "0", "0">>, work_done |-> "work"],
     [rate |-> <<"1", "2", ".", "3", "4">>, off_days |-> <<10>>, work_done |-> "work"],
     [rate |-> <<"5", "0">>, work_done |-> "work"],
     [rate |-> <<"0", ".", "1", "3">>, work_done |-> "work"],
     [rate |-> <<"5", "0", ".", "0", "0">>]}

ValuesDocs == UNION {[1..n -> MainEntries] : n \in 1..MaxDates}

MandatoryItems ==
    {<<required_sections[i], "">> : i \in DOMAIN required_sections}
        \cup UNION {{<<n, k>> : k \in template_keys[n]} : n \in DOMAIN template_keys}
        \cup {<<"billables", k>> : k \in billable_keys}

\* the sets of up to n mandatory items
RECURSIVE ItemSets(_)
ItemSets(n) ==
    IF n = 0 THEN {{}}
    ELSE LET fewer == ItemSets(n - 1)
         IN  fewer \cup {m \cup {item} : m \in fewer, item \in MandatoryItems}

\* templates that lack up to MaxMissing mandatory items
LackingTemplates ==
    {[missing |-> ms, image_file |-> logo, colors |-> TRUE] :
        ms \in ItemSets(MaxMissing), logo \in BOOLEAN}

MainTerms == {<<"N", "e", "t", " ", "6", "0">>, <<"N", "e", "t", " ", "4", "5">>,
              <<"N", "e", "t">>}

\* templates with every mandatory item
CompleteTemplates ==
    LET plain == [missing : {{}}, image_file : BOOLEAN, colors : BOOLEAN]
    IN  plain \cup {put(t, "payment_terms", terms) : t \in plain, terms \in MainTerms}

MainInit ==
    /\ pc = "get_yaml_config"
    /\ template \in LackingTemplates \cup CompleteTemplates
    /\ values \in ValuesDocs
    /\ template.missing = {} \/ Len(values) = 1
    /\ pdf_config = <<>>
    /\ idx = 1
    /\ stderr = <<>>
    /\ rendered = <<>>
    /\ log = <<>>
    /\ status = NoStatus
    /\ BillablesIdle
    /\ MoneyIdle
    /\ TermsIdle
    /\ DefaultsIdle

\* a faulty variant of all_expanded: the loop ends after the first date
first_expanded(i, vals) == i > 1

\* get_yaml_config's loop over the values is over
all_expanded(i, vals) == i > Len(vals)

\* an uncaught exception ends the process with a traceback and code 1
Raise(exc, where) ==
    /\ status' = [exc |-> exc, where |-> where, code |-> 1]
    /\ pc' = "exit"

\* one turn of get_yaml_config's loop
ExpandDate ==
    /\ pc = "get_yaml_config"
    /\ ~all_expanded(idx, values)
    /\ log' = Append(log, <<"expand", idx>>)
    /\ \E e \in {expand_date(template, BillDates[idx], values[idx],
                               get_billables(values[idx], BillDates[idx][1],
                                             BillDates[idx][2],
                                             probe_currency_marker(template)))} :
           IF e.exc = "none"
           THEN /\ pdf_config' = Append(pdf_config, e.config)
                /\ idx' = idx + 1
                /\ UNCHANGED <<pc, status>>
           ELSE /\ Raise(e.exc, e.where)
                /\ UNCHANGED <<pdf_config, idx>>
    /\ UNCHANGED <<template, values, stderr, rendered,
                   billables_vars, money_vars, terms_vars, defaults_vars>>

\* get_yaml_config returns the list and do_main's loop takes its first entry
ReturnConfigs ==
    /\ pc = "get_yaml_config"
    /\ all_expanded(idx, values)
    /\ pc' = "add_config_defaults"
    /\ idx' = 1
    /\ UNCHANGED <<template, values, pdf_config, stderr, rendered, log, status,
                   billables_vars, money_vars, terms_vars, defaults_vars>>

EntryDefaults ==
    /\ pc = "add_config_defaults"
    /\ log' = Append(log, <<"add_config_defaults", idx>>)
    /\ pdf_config' = [pdf_config EXCEPT ![idx] = add_config_defaults(@)]
    /\ pc' = "set_due_date"
    /\ UNCHANGED <<template, values, idx, stderr, rendered, status,
                   billables_vars, money_vars, terms_vars, defaults_vars>>

EntryDueDate ==
    /\ pc = "set_due_date"
    /\ log' = Append(log, <<"set_due_date", idx>>)
    /\ LET c == pdf_config[idx]
       IN  IF "bill" \notin DOMAIN c
           THEN /\ Raise("KeyError", "set_due_date")
                /\ UNCHANGED <<pdf_config, stderr>>
           ELSE \E due \in {set_due_date(c.bill, c.billdate[1], c.billdate[2],
                                           c.billdate[3])} :
                    IF due.exc = "none"
                    THEN /\ pdf_config' = [pdf_config EXCEPT ![idx] = put(c, "bill", due.bill)]
                         /\ pc' = "validate_config"
                         /\ UNCHANGED <<stderr, status>>
                    ELSE /\ Raise(due.exc, "set_due_date")
                         /\ stderr' = IF due.stderr = <<>> THEN stderr
                                      ELSE Append(stderr, due.stderr)
                         /\ UNCHANGED pdf_config
    /\ UNCHANGED <<template, values, idx, rendered,
                   billables_vars, money_vars, terms_vars, defaults_vars>>

EntryValidate ==
    /\ pc = "validate_config"
    /\ log' = Append(log, <<"validate_config", idx>>)
    /\ \E exists \in BOOLEAN, c \in {pdf_config[idx]} :
          \E valid \in {validate_config(c, exists)},
             bad \in {usage("Bad yaml configuration, exiting")} :
              /\ exists \/ ("business" \in DOMAIN c /\ "image_file" \in DOMAIN c.business)
              /\ IF valid.ok
                 THEN /\ stderr' = stderr \o valid.stderr
                      /\ pc' = "render_pdf"
                      /\ UNCHANGED status
                 ELSE /\ stderr' = stderr \o valid.stderr \o bad.stderr
                      /\ IF bad.exc = "none"
                         THEN pc' = "render_pdf" /\ UNCHANGED status
                         ELSE /\ status' = [exc |-> bad.exc, where |-> "usage",
                                            code |-> bad.code]
                              /\ pc' = "exit"
    /\ UNCHANGED <<template, values, pdf_config, idx, rendered,
                   billables_vars, money_vars, terms_vars, defaults_vars>>

EntryRender ==
    /\ pc = "render_pdf"
    /\ log' = Append(log, <<"render_pdf", idx>>)
    /\ \E invoice \in {render_pdf(pdf_config[idx])} :
           IF invoice.exc # "none"
           THEN /\ Raise(invoice.exc, invoice.where)
                /\ UNCHANGED <<idx, rendered>>
           ELSE /\ rendered' = Append(rendered, [entry |-> idx,
                                                 subtotal |-> invoice.subtotal])
                /\ IF idx < Len(pdf_config)
                   THEN idx' = idx + 1 /\ pc' = "add_config_defaults"
                   ELSE idx' = idx /\ pc' = "exit"
                /\ UNCHANGED status
    /\ UNCHANGED <<template, values, pdf_config, stderr,
                   billables_vars, money_vars, terms_vars, defaults_vars>>

MainNext ==
    \/ ExpandDate
    \/ ReturnConfigs
    \/ EntryDefaults
    \/ EntryDueDate
    \/ EntryValidate
    \/ EntryRender

MainSpec == MainInit /\ [][MainNext]_vars

(***************************************************************************)
(* Properties of the week splitter, the off-day filter and the billables   *)
(***************************************************************************)
month_end_of_billdate == DaysInMonth(year, month)

listed_off_days == entry_off_days(entry)

\* get_week_info was called (the filter before it, if any, did not raise)
WeekInfoCalled == pc # "start" /\ result.where # "not_weekend"

\* weeks is a list of (start, end, workdays, hours) that partitions [1, last]
Partitions(weeks, last) ==
    /\ Len(weeks) >= 1
    /\ weeks[1][1] = 1
    /\ \A i \in 1..Len(weeks) : Len(weeks[i]) = 4 /\ weeks[i][1] <= weeks[i][2]
    /\ \A i \in 2..Len(weeks) : weeks[i][1] = weeks[i - 1][2] + 1
    /\ weeks[Len(weeks)][2] = last

\* C1: for every year, month and off-day list, get_week_info returns, and
\* the segments it returns partition [1, days_in_month]: the first starts at
\* day 1, each later one starts at the end of the one before plus 1, every
\* one has start <= end, and the last ends at days_in_month.
C1_WeeksPartitionMonth ==
    WeekInfoCalled =>
        /\ result.exc # "no return"
        /\ Partitions(result.weeks, month_end_of_billdate)

\* get_week_info given the off days as listed (a weekend day among them)
\* returned the six segments of a month that begins on a Saturday
C1_Witness ==
    /\ pc = "get_week_info"
    /\ listed_off_days = <<1, 2>>
    /\ year = 2024 /\ month = 6
    /\ Len(result.weeks) = 6
    /\ result.weeks[6] = <<30, 30, 0, 0>>

Range(seq) == {seq[i] : i \in DOMAIN seq}

DistinctValidDays(days) ==
    /\ \A i, j \in DOMAIN days : days[i] = days[j] => i = j
    /\ \A i \in DOMAIN days : ValidDate(year, month, days[i])

\* the Monday-Friday dates of [start, end] that are not listed off days
WorkdaysIn(start, end, days) ==
    Cardinality({d \in start..end :
                    weekday(year, month, d) \in 0..4 /\ d \notin Range(days)})

RECURSIVE TotalWorkdays(_)
TotalWorkdays(weeks) ==
    IF weeks = <<>> THEN 0 ELSE Head(weeks)[3] + TotalWorkdays(Tail(weeks))

\* C2: for off_days of distinct days valid for the month, after the weekend
\* filter of get_billables every segment's workdays is the number of
\* Monday-Friday dates in [start, end] that are not listed off days; June
\* 2024 without off days begins with (1, 1, 0, 0) and has 20 workdays.
C2_WorkdaysAreWeekdaysNotOff ==
    (pc = "get_billables" /\ DistinctValidDays(listed_off_days)) =>
        /\ result.where # "not_weekend"
        /\ result.weeks # <<>>
        /\ \A i \in 1..Len(result.weeks) :
              result.weeks[i][3] =
                  WorkdaysIn(result.weeks[i][1], result.weeks[i][2], listed_off_days)
        /\ (year = 2024 /\ month = 6 /\ listed_off_days = <<>>) =>
              /\ result.weeks[1] = <<1, 1, 0, 0>>
              /\ TotalWorkdays(result.weeks) = 20

\* June 2024 with Monday the 10th and Sunday the 2nd off: the filter drops
\* the Sunday, and only the week of the 10th loses a workday
C2_Witness ==
    /\ pc = "get_billables"
    /\ year = 2024 /\ month = 6
    /\ listed_off_days = <<2, 10>>
    /\ result.off = <<10>>
    /\ result.weeks[2] = <<2, 8, 5, 40>>
    /\ result.weeks[3] = <<9, 15, 4, 32>>
    /\ TotalWorkdays(result.weeks) = 19

\* the first and last day of a billable line, read from its description
LineStart(billable) == int(billable.description[3]).val
LineEnd(billable) == int(billable.description[5]).val

WithWorkdays(weeks) == SelectSeq(weeks, LAMBDA w : w[3] > 0)

\* the cents of a rate string as the values document means it: an integer
\* string is whole units, a string with two decimals is units and cents
RateCents(rate) ==
    IF Positions(rate, ".") = {} THEN NatOfDigits(rate) * 100
    ELSE NatOfDigits(SelectSeq(rate, isdigit))

\* C7: every billable line has hours 8 times its segment's workdays and the
\* cost (rate in cents) times hours, rendered as currency marker, space,
\* format_money of the product, for integer and for two-decimal rate strings.
C7_LineCostIsRateTimesHours ==
    (pc = "get_billables" /\ result.where \notin {"not_weekend", "get_week_info"}) =>
        /\ result.exc = "none"
        /\ Len(result.billables) = Len(WithWorkdays(result.weeks))
        /\ \A i \in 1..Len(result.billables) :
              LET week == WithWorkdays(result.weeks)[i]
                  line == result.billables[i]
              IN  /\ line.hours = str(8 * week[3])
                  /\ line.cost = printable(currency_marker,
                                           format_money(RateCents(entry.rate) * 8 * week[3]))

\* C8: the billables list of get_billables has exactly one line for each
\* segment with workdays > 0, none for the others, in strictly ascending
\* week-start order.
C8_OneLinePerWorkedWeek ==
    (pc = "get_billables" /\ result.exc = "none") =>
        /\ Len(result.billables) = Len(WithWorkdays(result.weeks))
        /\ \A i \in 1..Len(result.billables) :
              /\ LineStart(result.billables[i]) = WithWorkdays(result.weeks)[i][1]
              /\ LineEnd(result.billables[i]) = WithWorkdays(result.weeks)[i][2]
        /\ \A i \in 2..Len(result.billables) :
              LineStart(result.billables[i - 1]) < LineStart(result.billables[i])

\* March 2024 with Friday the 1st off: the first segment (1, 2) and the last
\* (Sunday the 31st) have no workdays and get no line, the four between do
C8_Witness ==
    /\ pc = "get_billables"
    /\ result.exc = "none"
    /\ year = 2024 /\ month = 3
    /\ listed_off_days = <<1>>
    /\ result.weeks[1] = <<1, 2, 0, 0>>
    /\ Len(result.weeks) = 6
    /\ result.weeks[6] = <<31, 31, 0, 0>>
    /\ Len(result.billables) = 4
    /\ LineStart(result.billables[1]) = 3

\* the days of a list that fall on Monday-Friday, in the order listed
Weekdays(days) ==
    SelectSeq(days, LAMBDA d : ValidDate(year, month, d)
                               /\ weekday(year, month, d) \in 0..4)

\* C9: the off-day filter of get_billables removes every day that falls on a
\* Saturday or Sunday and keeps every day that falls on Monday-Friday, in
\* order, and fails on no list of days.
C9_FilterKeepsWeekdays ==
    pc = "get_billables" =>
        /\ result.where # "not_weekend"
        /\ result.off = Weekdays(listed_off_days)

(***************************************************************************)
(* Properties of the money routines                                        *)
(***************************************************************************)
\* convert_money was applied to a text of the values document or template
\* (not to one format_money made)
ParsedText == pc = "done" /\ formatted = <<>>

\* convert_money was applied to the text format_money made of cents
ParsedFormatted == pc = "done" /\ formatted # <<>>

RECURSIVE DropMarker(_)
\* the text without its leading run of non-digit characters
DropMarker(t) ==
    IF t # <<>> /\ ~isdigit(Head(t)) THEN DropMarker(Tail(t)) ELSE t

AllDigits(t) == \A i \in 1..Len(t) : isdigit(t[i])

\* C3: convert_money of a money text without a decimal point (digits only
\* after its leading non-digit marker run, as "$ 50" or "50") returns the
\* integer part times 100.
C3_NoPointIsIntegerTimes100 ==
    (ParsedText /\ DropMarker(text) # <<>> /\ AllDigits(DropMarker(text))) =>
        parsed = [exc |-> "none", val |-> NatOfDigits(DropMarker(text)) * 100]

\* C4: convert_money does not raise but returns 0 for the empty string and
\* for a string of non-digit characters only.
C4_GarbageIsZero ==
    (ParsedText /\ DropMarker(text) = <<>>) =>
        parsed = [exc |-> "none", val |-> 0]

\* C5: convert_money(format_money(c)) returns c for every number of cents
\* c >= 0, also when c mod 100 is 0 or in 1..9.
C5_FormatThenParseRoundTrips ==
    ParsedFormatted => parsed = [exc |-> "none", val |-> cents]

\* the two-digit rendering of n in 0..99
TwoDigits(n) == <<Digits[(n \div 10) + 1], Digits[(n % 10) + 1]>>

\* C6: format_money(c) is "<c div 100>.<fraction>", the fraction being the
\* single digit "0" when c mod 100 = 0 and the two-digit rendering of
\* c mod 100 otherwise (12345 -> "123.45", 10000 -> "100.0", 105 -> "1.05").
C6_FormatIsIntegerPointFraction ==
    formatted # <<>> =>
        formatted = str(cents \div 100) \o <<".">>
                    \o (IF cents % 100 = 0 THEN <<"0">> ELSE TwoDigits(cents % 100))

(***************************************************************************)
(* Properties of set_due_date                                              *)
(***************************************************************************)
Lower(c) ==
    CASE c = "N" -> "n" [] c = "E" -> "e" [] c = "T" -> "t" [] c = "D" -> "d"
      [] OTHER -> c

LowerText(t) == [i \in DOMAIN t |-> Lower(t[i])]

\* "Net N" with N in {30, 60, 90, 120, 180}, Net in any letter case
IsNetN(terms) ==
    \E n \in {<<"3", "0">>, <<"6", "0">>, <<"9", "0">>, <<"1", "2", "0">>,
              <<"1", "8", "0">>} :
        LowerText(terms) = <<"n", "e", "t", " ">> \o n

\* the payment terms in force: those of the bill, "Net 30" when it has none
TermsInForce ==
    IF "payment_terms" \in DOMAIN bill THEN bill.payment_terms
    ELSE <<"N", "e", "t", " ", "3", "0">>

\* C10: set_due_date accepts the payment terms exactly when they are "Net N"
\* with N in {30, 60, 90, 120, 180} and Net in any letter case, "Net 30"
\* standing in for absent terms; for every other value it writes the "Bad
\* payment terms" error and exits non-zero without setting due_date.
C10_TermsAcceptedIffNetN ==
    pc = "set_due_date" =>
        IF IsNetN(TermsInForce)
        THEN /\ outcome.exc = "none"
             /\ outcome.bill.payment_terms = TermsInForce
             /\ "due_date" \in DOMAIN outcome.bill
        ELSE /\ outcome.exc = "SystemExit"
             /\ outcome.status # 0
             /\ outcome.stderr = <<"Bad payment terms: ", TermsInForce, "\n">>
             /\ "due_date" \notin DOMAIN outcome.bill

\* the day number of a date, counted from 0001-01-01
Ordinal(y, m, d) == DaysBeforeYear(y) + DaysBeforeMonth(y, m) + d

\* the number of days of the payment terms in force
TermDays ==
    CHOOSE n \in {30, 60, 90, 120, 180} : split(TermsInForce)[2] = str(n)

\* a text YYYY/MM/DD
IsDateText(t) ==
    /\ Len(t) = 10
    /\ t[5] = "/" /\ t[8] = "/"
    /\ \A i \in {1, 2, 3, 4, 6, 7, 9, 10} : isdigit(t[i])

DateTextYear(t) == NatOfDigits(SubSeq(t, 1, 4))
DateTextMonth(t) == NatOfDigits(SubSeq(t, 6, 7))
DateTextDay(t) == NatOfDigits(SubSeq(t, 9, 10))

OffGiven == result.off

\* the workdays of segment i before remove_off took the off days out
BeforeOff(i) ==
    result.weeks[i][3]
        + Cardinality({k \in DOMAIN OffGiven :
                          /\ result.weeks[i][1] <= OffGiven[k]
                          /\ OffGiven[k] <= result.weeks[i][2]})

SpanOf(i) == result.weeks[i][2] - result.weeks[i][1] + 1

LaterSegments == 2..Len(result.weeks)

\* C16 (as claimed): for every segment after the first the workdays before
\* off-day subtraction are 5 when the segment spans 7 days, and for the final
\* partial segment they are the days remaining in the month from its start,
\* end - start + 1.
C16_PartialWeekCountsItsSpan ==
    WeekInfoCalled =>
        \A i \in LaterSegments :
            BeforeOff(i) = IF SpanOf(i) = 7 THEN 5 ELSE SpanOf(i)

\* C16 (amended): for every segment after the first the workdays before
\* off-day subtraction are 5 when the segment spans 7 days, and for the final
\* partial segment they are end - start: the days that follow the Sunday the
\* segment starts on.
C16_PartialWeekCountsAfterSunday ==
    WeekInfoCalled =>
        \A i \in LaterSegments :
            /\ SpanOf(i) <= 7
            /\ SpanOf(i) < 7 => i = Len(result.weeks)
            /\ BeforeOff(i) = IF SpanOf(i) = 7 THEN 5
                              ELSE result.weeks[i][2] - result.weeks[i][1]

\* February 2023 with the 10th off twice: the week of the 5th spans 7 days
\* and the last one, 26 to 28, has the 2 workdays after its Sunday
C16_Witness ==
    /\ pc = "get_week_info"
    /\ year = 2023 /\ month = 2
    /\ listed_off_days = <<10, 10>>
    /\ result.weeks[2] = <<5, 11, 3, 24>>
    /\ result.weeks[5] = <<26, 28, 2, 16>>

\* C17: for every off-day list whatsoever no segment of get_week_info has a
\* negative workday count or negative work hours.
C17_WorkdaysNeverNegative ==
    WeekInfoCalled =>
        \A i \in 1..Len(result.weeks) :
            result.weeks[i][3] >= 0 /\ result.weeks[i][4] >= 0

(***************************************************************************)
(* Properties of add_config_defaults                                       *)
(***************************************************************************)
NestedKeys == {"tax_details", "app_config", "colors"}

\* every key of before is in after with the value it had; a nested dict
\* keeps each of its own keys
KeepsWhatIsPresent(before, after) ==
    /\ DOMAIN before \subseteq DOMAIN after
    /\ \A k \in DOMAIN before :
          IF k \in NestedKeys
          THEN /\ DOMAIN before[k] \subseteq DOMAIN after[k]
               /\ \A sub \in DOMAIN before[k] : after[k][sub] = before[k][sub]
          ELSE after[k] = before[k]

\* key of the stanza is default when the config did not set it
DefaultWhenAbsent(before, after, stanza, key, default) ==
    /\ stanza \in DOMAIN after
    /\ key \in DOMAIN after[stanza]
    /\ (stanza \notin DOMAIN before \/ key \notin DOMAIN before[stanza])
          => after[stanza][key] = default

\* C15: add_config_defaults sets a key only when it is absent and leaves every
\* key already present unchanged: afterwards currency_marker is "$" if it was
\* absent, tax_name is "Tax" and default_percentage 0 if absent, output_dir is
\* "./billed" if absent, and sans_font and serif_font hold a font; applying it
\* to its own result changes nothing.
C15_DefaultsOnlyFillGaps ==
    pc # "start" =>
        LET after == defaulted[1]
        IN  /\ KeepsWhatIsPresent(config, after)
            /\ "currency_marker" \in DOMAIN after
            /\ "currency_marker" \notin DOMAIN config => after.currency_marker = <<"$">>
            /\ DefaultWhenAbsent(config, after, "tax_details", "tax_name", "Tax")
            /\ DefaultWhenAbsent(config, after, "tax_details", "default_percentage", 0)
            /\ DefaultWhenAbsent(config, after, "app_config", "output_dir", "./billed")
            /\ DefaultWhenAbsent(config, after, "app_config", "sans_font", "Helvetica")
            /\ DefaultWhenAbsent(config, after, "app_config", "serif_font", "DejaVu")
            /\ Len(defaulted) = 2 => defaulted[2] = after

\* a config with its own tax percentage and output directory, defaulted twice
C15_Witness ==
    /\ pc = "add_config_defaults again"
    /\ config = [billdate |-> "2024-06-15",
                 tax_details |-> [default_percentage |-> 20],
                 app_config |-> [output_dir |-> "/srv/invoices"]]
    /\ defaulted[2].currency_marker = <<"$">>
    /\ defaulted[2].tax_details = [tax_name |-> "Tax", default_percentage |-> 20]
    /\ defaulted[2].app_config =
          [output_dir |-> "/srv/invoices", sans_font |-> "Helvetica",
           serif_font |-> "DejaVu"]

(***************************************************************************)
(* Properties of do_main: validation, the batch, the subtotal              *)
(***************************************************************************)
\* the step was taken for the entry at position i
Called(step, i) == <<step, i>> \in Range(log)

\* the mandatory keys of the stanzas
MandatoryKeys ==
    [business |-> {"name", "person", "address"},
     bill_to |-> {"email", "name", "street", "city_state_zip", "country"},
     bill |-> {"department", "currency"}]

MandatorySections == {"business", "bill_to", "bill", "work_done", "billables"}

MissingSections(c) == MandatorySections \ DOMAIN c

\* the <<stanza, key>> of each mandatory key that a stanza of c lacks
MissingKeys(c) ==
    {sk \in UNION {{<<n, k>> : k \in MandatoryKeys[n]} : n \in DOMAIN MandatoryKeys} :
        sk[1] \in DOMAIN c /\ sk[2] \notin DOMAIN c[sk[1]]}

\* the <<position, key>> of each key that a billable entry of c lacks
MissingBillableKeys(c) ==
    IF "billables" \notin DOMAIN c THEN {}
    ELSE {ik \in (DOMAIN c.billables) \X {"description", "hours", "rate"} :
             ik[2] \notin DOMAIN c.billables[ik[1]]}

LacksMandatoryItem(c) ==
    MissingSections(c) # {} \/ MissingKeys(c) # {} \/ MissingBillableKeys(c) # {}

\* do_main's loop is done with the validation of the entry at position i
PastValidation(i) ==
    /\ Called("add_config_defaults", i)
    /\ i < idx \/ pc \in {"render_pdf", "exit"}

\* the run ended because validate_config returned False for the entry at i
ValidationFailed(i) == pc = "exit" /\ idx = i /\ status.where = "usage"

ImageFileLines == {j \in DOMAIN stderr : stderr[j][1] = "No such image file "}

\* C12: whenever the config do_main has reached lacks a mandatory section, a
\* mandatory key of business, bill_to or bill, or description, hours or rate
\* of a billable entry, the failure is on the error stream, validate_config
\* returned False and the run is over with render_pdf never called for it;
\* and a config with every mandatory item fails validation only for an image
\* file that does not exist.
C12_MissingItemAbortsBeforeRender ==
    \A i \in 1..Len(pdf_config) :
        /\ (PastValidation(i) /\ LacksMandatoryItem(pdf_config[i])) =>
              /\ stderr # <<>>
              /\ ValidationFailed(i)
              /\ ~Called("render_pdf", i)
        /\ (ValidationFailed(i) /\ ~LacksMandatoryItem(pdf_config[i])) =>
              /\ "image_file" \in DOMAIN pdf_config[i].business
              /\ ImageFileLines # {}

\* a line of the error stream names the section
SectionReported(section) ==
    \E j \in DOMAIN stderr : Len(stderr[j]) = 2 /\ stderr[j][2] = section

\* C13: when validate_config fails a config with several missing sections or
\* several missing keys, in one stanza or in several, every one of them is on
\* the error stream when the run aborts.
C13_EveryFailureReported ==
    \A i \in 1..Len(pdf_config) :
        ValidationFailed(i) =>
            /\ \A section \in MissingSections(pdf_config[i]) : SectionReported(section)
            /\ \A sk \in MissingKeys(pdf_config[i]) :
                  \E j \in DOMAIN stderr : Len(stderr[j]) = 2 /\ stderr[j][2] = sk[2]
            /\ Cardinality({j \in DOMAIN stderr :
                               stderr[j][1] \in {stanza_message, entry_message,
                                                 "Config is missing mandatory stanza "}})
                  >= Cardinality(MissingSections(pdf_config[i]))
                       + Cardinality(MissingKeys(pdf_config[i]))

\* the run ended at the entry at position k, which failed validation or the
\* check of its payment terms
FailedAt(k) ==
    /\ pc = "exit"
    /\ idx = k
    /\ Called("add_config_defaults", k)
    /\ \/ status.where = "usage"
       \/ status.where = "set_due_date" /\ status.exc = "SystemExit"

BadConfigLines ==
    {j \in DOMAIN stderr : stderr[j] = <<"Bad yaml configuration, exiting">>}

\* C14: if the config at position k is the first to fail validation or the
\* check of its payment terms, every config before k has been rendered, in
\* order, none at k or later is rendered, and the process is over with a
\* non-zero exit code.
C14_FirstFailureEndsTheBatch ==
    /\ \A j \in DOMAIN rendered : rendered[j].entry = j /\ Called("render_pdf", j)
    /\ BadConfigLines # {} =>
          /\ pc = "exit"
          /\ status.where = "usage"
    /\ \A k \in 1..Len(pdf_config) :
          FailedAt(k) =>
              /\ Len(rendered) = k - 1
              /\ \A j \in k..Len(pdf_config) : ~Called("render_pdf", j)
              /\ status.code # 0

\* two dates, the logo of the first exists and the logo of the second does not
C14_Witness ==
    /\ Len(values) = 2
    /\ FailedAt(2)
    /\ status.where = "usage"
    /\ Len(rendered) = 1
    /\ rendered[1].entry = 1
    /\ ImageFileLines # {}

LoopSteps == <<"add_config_defaults", "set_due_date", "validate_config", "render_pdf">>

StepRank(step) == CHOOSE r \in DOMAIN LoopSteps : LoopSteps[r] = step

\* C18 (as claimed): every step for a billing date, its rendering as the
\* last, is over before any step for the next date begins, its expansion
\* included.
C18_OneDateAtATime ==
    \A j \in DOMAIN log :
        log[j][2] > 1 =>
            /\ \E h \in 1..(j - 1) : log[h] = <<"render_pdf", log[j][2] - 1>>
            /\ \E r \in DOMAIN rendered : rendered[r].entry = log[j][2] - 1

\* C18 (amended): get_yaml_config expands every billing date, in the order of
\* the values document, before do_main defaults any config; from then on the
\* dates are processed one at a time, defaulting, due date, validation and
\* rendering of one being over before the defaulting of the next begins; a
\* failure while expanding a date ends the run with no invoice rendered.
C18_ExpandAllThenOneAtATime ==
    /\ \A j \in DOMAIN log :
          IF j <= Len(values) /\ log[j][1] = "expand"
          THEN log[j][2] = j
          ELSE /\ j > Len(values)
               /\ log[j][1] \in Range(LoopSteps)
               /\ IF j = Len(values) + 1
                  THEN log[j] = <<"add_config_defaults", 1>>
                  ELSE \/ /\ log[j][2] = log[j - 1][2]
                          /\ StepRank(log[j][1]) = StepRank(log[j - 1][1]) + 1
                       \/ /\ log[j][2] = log[j - 1][2] + 1
                          /\ log[j][1] = "add_config_defaults"
                          /\ log[j - 1][1] = "render_pdf"
                          /\ \E r \in DOMAIN rendered : rendered[r].entry = log[j - 1][2]
    /\ (pc = "exit" /\ log # <<>> /\ log[Len(log)][1] = "expand") =>
          status.exc # "none" /\ rendered = <<>>

\* the first date expands, the rate of the second has no point: the run ends
\* in the expansion of the second and the first is not rendered
C18_Witness ==
    /\ pc = "exit"
    /\ Len(values) = 2
    /\ values[1].rate = <<"5", "0", ".", "0", "0">> /\ "work_done" \in DOMAIN values[1]
    /\ values[2].rate = <<"5", "0">>
    /\ log = <<<<"expand", 1>>, <<"expand", 2>>>>
    /\ Len(pdf_config) = 1
    /\ status.where = "fillin_billable"
    /\ rendered = <<>>

RECURSIVE SumOfLines(_, _)
SumOfLines(lines, rate) ==
    IF lines = <<>> THEN 0
    ELSE RateCents(rate) * int(Head(lines).hours).val + SumOfLines(Tail(lines), rate)

\* C19: for every config get_yaml_config produced with billables of
\* get_billables, get_subtotal returns without error the sum over the lines
\* of rate in cents times hours.
C19_SubtotalIsSumOfLines ==
    /\ status.where # "get_subtotal"
    /\ \A i \in 1..Len(pdf_config) :
          ("billables" \in DOMAIN pdf_config[i] /\ ~own_billables(template)) =>
              /\ get_subtotal(pdf_config[i]).exc = "none"
              /\ get_subtotal(pdf_config[i]).val
                    = SumOfLines(pdf_config[i].billables, values[i].rate)
    /\ \A r \in DOMAIN rendered :
          ~own_billables(template) =>
              rendered[r].subtotal
                 = SumOfLines(pdf_config[rendered[r].entry].billables,
                              values[rendered[r].entry].rate)

====
